---------------------------- MODULE Spec2Model ----------------------------
(***************************************************************************)
(* Model of OpenColorIO's 1D LUT GPU path (ops/Lut1D/Lut1DOpGPU.cpp):      *)
(* PadLutChannels, which packs the LUT's RGB triples into a width*height   *)
(* texture, and GetLut1DGPUShaderProgram, which derives the geometry,      *)
(* registers the texture on the shader description and emits the code;    *)
(* and of ColorSpaceSet (ColorSpaceSet.cpp), the ordered collection of     *)
(* color spaces keyed by name, with its union, intersection and            *)
(* difference.                                                             *)
(*                                                                         *)
(* C++ indices are 0-based; the sequences below are 1-based, so the float  *)
(* channel[j] of the code is channel[j + 1] here.                          *)
(***************************************************************************)
EXTENDS Integers, Sequences, FiniteSets, TLC

VARIABLES
    width,        \* PadLutChannels: parameter width
    height,       \* PadLutChannels: parameter height
    channel,      \* PadLutChannels: parameter channel (the input floats)
    chn,          \* PadLutChannels: the output vector
    padpc,        \* where the PadLutChannels call is: entry, or how it ended
    padlog,       \* locals of the call, kept to be inspected once it ended
    shaderDesc,   \* the GpuShaderDesc the program is compiled into
    lutData,      \* the Lut1DOpData of the latest GetLut1DGPUShaderProgram call
    callpc,       \* how the latest GetLut1DGPUShaderProgram call ended
    ncalls,       \* number of GetLut1DGPUShaderProgram calls made
    sinkLog,      \* history: the methods the calls made one after another
                  \* called on shaderDesc, in order
    calls,        \* the locals of the calls that share shaderDesc, per caller
    lcss,         \* m_colorSpaces of a ColorSpaceSet: the set operated on
    rcss,         \* m_colorSpaces of a second ColorSpaceSet: the argument
    setOp,        \* history: the latest ColorSpaceSet operation and its result
    setpc         \* "running", or how the ColorSpaceSet program ended

vars == <<width, height, channel, chn, padpc, padlog,
          shaderDesc, lutData, callpc, ncalls, sinkLog,
          calls, lcss, rcss, setOp, setpc>>

padVars == <<width, height, channel, chn, padpc, padlog>>
descVars == <<shaderDesc, lutData, callpc, ncalls, sinkLog>>
setVars == <<lcss, rcss, setOp, setpc>>

---------------------------------------------------------------------------
(* Bounds of the model. *)

MaxWidth == 6
MaxHeight == 3
MaxTriples == 9
MaxAlloc == 40
MaxTexWidth == 5
MaxLength == 6
HalfDomainLength == 4
MaxCalls == 2
MaxCallers == 2
MaxColorSpaces == 3
MaxArgumentSize == 2

---------------------------------------------------------------------------
(* Floats.  A float is finite (an integer stands for it), the largest      *)
(* finite float with a sign, a NaN or an infinity with a sign.             *)

Fin(n) == [k |-> "fin", v |-> n]
FltMax(s) == [k |-> "max", v |-> s]
NaN == [k |-> "nan", v |-> 0]
Inf(s) == [k |-> "inf", v |-> s]

IsFinite(f) == f.k \in {"fin", "max"}

NonFinite == {NaN, Inf(1), Inf(-1)}

(* MathUtils' SanitizeFloat: a NaN becomes 0, an infinity the largest      *)
(* finite float of its sign, a finite float is left as it is.              *)
SanitizeFloat(f) ==
    IF f.k = "nan" THEN Fin(0)
    ELSE IF f.k = "inf" THEN FltMax(f.v)
    ELSE f

---------------------------------------------------------------------------
(* unsigned long.  A value x is written as the integer congruent to it     *)
(* modulo 2^64 that lies nearest to 0: a negative integer -d stands for    *)
(* 2^64 - d, the result of a subtraction that wrapped around.              *)

USub(a, b) == a - b

ULess(a, b) ==
    IF a >= 0 /\ b >= 0 THEN a < b
    ELSE IF a >= 0 THEN TRUE
    ELSE IF b >= 0 THEN FALSE
    ELSE a < b

---------------------------------------------------------------------------
(* PadLutChannels.  The state of a running call is a record:               *)
(*   chn       the output vector so far                                    *)
(*   reads     the input triple indices read so far (0-based)              *)
(*   leftover  the local leftover                                          *)
(*   missing   the local missingEntries                                    *)
(*   end       "run" while running, else how the call ended: "ub" at an    *)
(*             out-of-range read of channel, "bad_alloc" when the vector   *)
(*             cannot grow any more                                        *)

CurrWidth(chan) == Len(chan) \div 3

InRange(chan, i) == 0 <= i /\ i < CurrWidth(chan)

(* The floats of input triples [from, to), sanitized (std::transform). *)
RECURSIVE TransformRange(_, _, _)
TransformRange(chan, from, to) ==
    IF from >= to THEN <<>>
    ELSE <<SanitizeFloat(chan[3 * from + 1]),
           SanitizeFloat(chan[3 * from + 2]),
           SanitizeFloat(chan[3 * from + 3])>>
         \o TransformRange(chan, from + 1, to)

(* Three push_back of the sanitized floats of input triple i. *)
PushTriple(chan, i) ==
    <<SanitizeFloat(chan[3 * i + 1]),
      SanitizeFloat(chan[3 * i + 2]),
      SanitizeFloat(chan[3 * i + 3])>>

(* Appending to the vector: it throws std::bad_alloc past the memory. *)
Append3(st, floats) ==
    IF Len(st.chn) + Len(floats) > 3 * MaxAlloc
    THEN [st EXCEPT !.end = "bad_alloc"]
    ELSE [st EXCEPT !.chn = st.chn \o floats]

(* The triple that closes a row of the stepped loop and opens the next:    *)
(* the input triple i+step.  RowCloseOffByOne repeats the triple before    *)
(* it (a faulty variant, used to see that the properties notice it).       *)
RowCloseOffByOne(chan, step, i) ==
    PushTriple(chan, IF step > 0 THEN i + step - 1 ELSE i)

RowClose(chan, step, i) == PushTriple(chan, i + step)

(* One pass of the stepped loop's body at position i: the range [i, i+step) *)
(* is copied and the triple i+step is appended.                            *)
SteppedBody(chan, step, i, st) ==
    IF \E j \in i .. (i + step) : ~InRange(chan, j)
    THEN [st EXCEPT !.end = "ub", !.reads = st.reads \cup (i .. (i + step))]
    ELSE LET copied == Append3(st, TransformRange(chan, i, i + step))
             closed == IF copied.end = "run"
                       THEN Append3(copied, RowClose(chan, step, i))
                       ELSE copied
         IN  [closed EXCEPT !.reads = st.reads \cup (i .. (i + step)),
                            !.leftover = USub(st.leftover, step)]

(* for (i = 0; i < (currWidth - step); i += step) *)
RECURSIVE SteppedLoop(_, _, _, _)
SteppedLoop(chan, step, i, st) ==
    IF st.end # "run" THEN st
    ELSE IF ~ULess(i, USub(CurrWidth(chan), step)) THEN st
    ELSE SteppedLoop(chan, step, i + step, SteppedBody(chan, step, i, st))

(* if (leftover > 0) { copy [currWidth - leftover, currWidth - 1), then    *)
(* the last input triple }                                                 *)
LeftoverFill(chan, st) ==
    IF st.end # "run" \/ st.leftover = 0 THEN st
    ELSE LET cw == CurrWidth(chan)
             from == cw - st.leftover
         IN  IF \E j \in from .. (cw - 1) : ~InRange(chan, j)
             THEN [st EXCEPT !.end = "ub",
                             !.reads = st.reads \cup (from .. (cw - 1))]
             ELSE LET copied == Append3(st, TransformRange(chan, from, cw - 1))
                      closed == IF copied.end = "run"
                                THEN Append3(copied, PushTriple(chan, cw - 1))
                                ELSE copied
                  IN  [closed EXCEPT !.reads = st.reads \cup (from .. (cw - 1))]

(* else { for (auto & val : channel) chn.push_back(SanitizeFloat(val)); } *)
RECURSIVE SanitizeAll(_, _)
SanitizeAll(chan, j) ==
    IF j > Len(chan) THEN <<>>
    ELSE <<SanitizeFloat(chan[j])>> \o SanitizeAll(chan, j + 1)

SingleRowCopy(chan, st) ==
    [Append3(st, SanitizeAll(chan, 1))
        EXCEPT !.reads = st.reads \cup (0 .. (CurrWidth(chan) - 1))]

(* for (idx = 0; idx < missingEntries; ++idx) push the last input triple. *)
(* PadTripleRaw (no SanitizeFloat) and PadTripleOffByOne (the triple       *)
(* before the last) are faulty variants of the padding triple.             *)
PadTripleRaw(chan, i) == <<chan[3 * i + 1], chan[3 * i + 2], chan[3 * i + 3]>>

PadTripleOffByOne(chan, i) == PushTriple(chan, IF i > 0 THEN i - 1 ELSE i)

PadTriple(chan, i) == PushTriple(chan, i)

RECURSIVE PadLoop(_, _, _)
PadLoop(chan, idx, st) ==
    IF st.end # "run" THEN st
    ELSE IF ~ULess(idx, st.missing) THEN st
    ELSE LET last == CurrWidth(chan) - 1
         IN  IF ~InRange(chan, last)
             THEN [st EXCEPT !.end = "ub", !.reads = st.reads \cup {last}]
             ELSE PadLoop(chan, idx + 1,
                          [Append3(st, PadTriple(chan, last))
                              EXCEPT !.reads = st.reads \cup {last}])

MissingEntries(w, h, st) == USub(w * h, Len(st.chn) \div 3)

TailPadding(w, h, chan, st) ==
    IF st.end # "run" THEN st
    ELSE PadLoop(chan, 0, [st EXCEPT !.missing = MissingEntries(w, h, st)])

(* PadStartLeftoverOffByOne starts leftover one too low (a faulty variant). *)
PadStartLeftoverOffByOne(chan) ==
    [chn |-> <<>>, reads |-> {}, leftover |-> CurrWidth(chan) - 1,
     missing |-> 0, end |-> "run"]

PadStart(chan) ==
    [chn |-> <<>>, reads |-> {}, leftover |-> CurrWidth(chan),
     missing |-> 0, end |-> "run"]

Rows(w, h, chan) ==
    IF h > 1
    THEN LeftoverFill(chan, SteppedLoop(chan, w - 1, 0, PadStart(chan)))
    ELSE SingleRowCopy(chan, PadStart(chan))

PadLutChannels(w, h, chan) == TailPadding(w, h, chan, Rows(w, h, chan))

---------------------------------------------------------------------------
(* The inputs of PadLutChannels.  The triple idx of the plain channel holds *)
(* the floats 3*idx, 3*idx + 1, 3*idx + 2, all different; a channel may     *)
(* hold one float that is not finite.                                      *)

PlainChannel(n) == [j \in 1 .. 3 * n |-> Fin(j - 1)]

Channels(n) ==
    {PlainChannel(n)}
    \cup {[PlainChannel(n) EXCEPT ![p] = x] : p \in 1 .. 3 * n, x \in NonFinite}

NoDesc ==
    [textureMaxWidth |-> 0, resourcePrefix |-> <<>>, textures |-> <<>>,
     declareCode |-> <<>>, helperCode |-> <<>>, functionCode |-> <<>>]

NoLut ==
    [length |-> 0, values |-> <<>>, halfDomain |-> FALSE, hueAdjust |-> "NONE",
     interpolation |-> "LINEAR", cacheID |-> <<>>]

NoLog == [leftover |-> 0, missing |-> 0, reads |-> {}]

(* The callers that may share one shader description, and a caller that    *)
(* has not called yet.                                                     *)
Callers == 1 .. MaxCallers

NoCall ==
    [pc |-> "idle", lut |-> NoLut, width |-> 0, height |-> 0, values |-> <<>>,
     resName |-> <<>>, readAt |-> 0, texIndex |-> 0]

NoCalls == [p \in Callers |-> NoCall]

(* No ColorSpaceSet operation yet. *)
NoSetOp ==
    [op |-> "none", arg |-> <<>>, aliased |-> FALSE, result |-> <<>>,
     threw |-> FALSE]

NoSets ==
    /\ lcss = <<>>
    /\ rcss = <<>>
    /\ setOp = NoSetOp
    /\ setpc = "running"

InitPad ==
    /\ width \in 1 .. MaxWidth
    /\ height \in 1 .. MaxHeight
    /\ \E n \in 1 .. MaxTriples : channel \in Channels(n)
    /\ chn = <<>>
    /\ padpc = "entry"
    /\ padlog = NoLog
    /\ shaderDesc = NoDesc
    /\ lutData = NoLut
    /\ callpc = "idle"
    /\ ncalls = 0
    /\ sinkLog = <<>>
    /\ calls = NoCalls
    /\ NoSets

(* How a call that ran into undefined behaviour (an out-of-range read of   *)
(* channel) can end: the read faults, or it yields some value and the call *)
(* goes on writing until the memory is exhausted.                          *)
UbEnds == {"segfault", "ub_bad_alloc"}

PadEnd(r, ub) ==
    IF r.end = "run" THEN "returned"
    ELSE IF r.end = "bad_alloc" THEN "bad_alloc"
    ELSE ub

PadLog(r) == [leftover |-> r.leftover, missing |-> r.missing, reads |-> r.reads]

CallPadLutChannels ==
    /\ padpc = "entry"
    /\ LET r == PadLutChannels(width, height, channel)
       IN  /\ chn' = r.chn
           /\ padlog' = PadLog(r)
           /\ \E ub \in UbEnds : padpc' = PadEnd(r, ub)
    /\ UNCHANGED <<width, height, channel>>
    /\ UNCHANGED descVars
    /\ UNCHANGED calls
    /\ UNCHANGED setVars

NextPad == CallPadLutChannels

SpecPad == InitPad /\ [][NextPad]_vars

---------------------------------------------------------------------------
(* Reading the packed buffer. *)

(* The texel (three floats) at 0-based position p of a float vector. *)
Texel(buf, p) == <<buf[3 * p + 1], buf[3 * p + 2], buf[3 * p + 3]>>

NumTexels(buf) == Len(buf) \div 3

(* The input triple idx as it is stored: every float sanitized. *)
Stored(chan, idx) == PushTriple(chan, idx)

Min(a, b) == IF a < b THEN a ELSE b

PadEnded == padpc \in {"returned", "bad_alloc"}

---------------------------------------------------------------------------
(* Texts.  A text is a sequence of characters. *)

Digits == <<"0", "1", "2", "3", "4", "5", "6", "7", "8", "9">>

(* operator<< of an unsigned number: its decimal digits. *)
RECURSIVE ToDecimal(_)
ToDecimal(n) ==
    IF n < Len(Digits) THEN <<Digits[n + 1]>>
    ELSE ToDecimal(n \div Len(Digits)) \o <<Digits[(n % Len(Digits)) + 1]>>

Lut1dTag == <<"l", "u", "t", "1", "d", "_">>

ComputePosTag == <<"_", "c", "o", "m", "p", "u", "t", "e", "P", "o", "s">>

SamplerTag == <<"S", "a", "m", "p", "l", "e", "r">>

(* GpuShaderText::getSamplerName *)
GetSamplerName(name) == name \o SamplerTag

---------------------------------------------------------------------------
(* The shader description (GpuShaderDesc), as far as the LUT code uses it. *)

GetNumTextures(desc) == Len(desc.textures)

AddTexture(desc, name, cacheID, w, h, interp, values) ==
    [desc EXCEPT !.textures =
        Append(@, [name |-> name, cacheID |-> cacheID, width |-> w,
                   height |-> h, channel |-> "RGB", interpolation |-> interp,
                   values |-> values])]

AddToDeclareShaderCode(desc, text) ==
    [desc EXCEPT !.declareCode = Append(@, text)]

AddToHelperShaderCode(desc, text) ==
    [desc EXCEPT !.helperCode = Append(@, text)]

AddToFunctionShaderCode(desc, text) ==
    [desc EXCEPT !.functionCode = Append(@, text)]

---------------------------------------------------------------------------
(* GetLut1DGPUShaderProgram. *)

LutWidth(length, defaultMaxWidth) == Min(length, defaultMaxWidth)

(* LutHeightNoExtraRow leaves the + 1 out (a faulty variant). *)
LutHeightNoExtraRow(length, defaultMaxWidth) == length \div defaultMaxWidth

LutHeight(length, defaultMaxWidth) == (length \div defaultMaxWidth) + 1

(* resName << getResourcePrefix() << "lut1d_" << getNumTextures()          *)
(* ResNameNoCounter leaves the counter out (a faulty variant).             *)
ResNameNoCounter(desc) == desc.resourcePrefix \o Lut1dTag

ResName(desc) ==
    desc.resourcePrefix \o Lut1dTag \o ToDecimal(GetNumTextures(desc))

(* The two tests of "height > 1 || lutData->isInputHalfDomain()": the one  *)
(* that chooses the declaration and the helper, and the one that chooses   *)
(* the sampling code.  SampleUses2DHeightOnly forgets the half domain (a   *)
(* faulty variant).                                                        *)
DeclareUses2D(h, lut) == h > 1 \/ lut.halfDomain

SampleUses2DHeightOnly(h, lut) == h > 1

SampleUses2D(h, lut) == h > 1 \/ lut.halfDomain

(* The text of the helper <name>_computePos: which index dep it computes   *)
(* from f, how it takes the row from dep, and the numbers it divides by.   *)
HelperText(lut, name, w, h) ==
    IF lut.halfDomain
    THEN [name |-> name \o ComputePosTag, dep |-> "rawHalf", row |-> "floor",
          scale |-> 0, rowStep |-> w - 1, xDim |-> w, yDim |-> h]
    ELSE [name |-> name \o ComputePosTag, dep |-> "min(f,1)*scale", row |-> "int",
          scale |-> lut.length - 1, rowStep |-> w - 1, xDim |-> w, yDim |-> h]

DeclareText(kind, name) == [declare |-> kind, name |-> name]

(* The per-pixel code: the sampling call per channel, through the helper   *)
(* (2D) or through <name>_coords (1D), inside the hue adjustment if any.   *)
FunctionText(lut, name, h) ==
    IF SampleUses2D(h, lut)
    THEN [name |-> name, sample |-> "sampleTex2D", pos |-> name \o ComputePosTag,
          dim |-> 0, hueAdjust |-> (lut.hueAdjust = "DW3")]
    ELSE [name |-> name, sample |-> "sampleTex1D", pos |-> <<>>,
          dim |-> lut.length, hueAdjust |-> (lut.hueAdjust = "DW3")]

(* The declaration and the helper. *)
EmitDeclaration(desc, lut, name, w, h) ==
    IF DeclareUses2D(h, lut)
    THEN AddToHelperShaderCode(
             AddToDeclareShaderCode(desc, DeclareText("tex2D", name)),
             HelperText(lut, name, w, h))
    ELSE AddToDeclareShaderCode(desc, DeclareText("tex1D", name))

DeclarationLog(h, lut) ==
    IF DeclareUses2D(h, lut)
    THEN <<"addToDeclareShaderCode", "addToHelperShaderCode">>
    ELSE <<"addToDeclareShaderCode">>

(* The shader description after a call whose PadLutChannels returned values. *)
Emitted(desc, lut, w, h, values) ==
    LET name == ResName(desc)
        registered == AddTexture(desc, GetSamplerName(name), lut.cacheID, w, h,
                                 lut.interpolation, values)
        declared == EmitDeclaration(registered, lut, name, w, h)
    IN  AddToFunctionShaderCode(declared, FunctionText(lut, name, h))

EmittedLog(lut, h) ==
    <<"addTexture">> \o DeclarationLog(h, lut) \o <<"addToFunctionShaderCode">>

(* The LUTs a call may be given.  A half-domain LUT has one entry per half *)
(* float (HalfDomainLength stands for the 65536 of the program).           *)
LutOf(length, half, hue, interp) ==
    [length |-> length, values |-> PlainChannel(length), halfDomain |-> half,
     hueAdjust |-> hue, interpolation |-> interp,
     cacheID |-> <<"lut1d", length, half>>]

Luts ==
    {LutOf(n, FALSE, "NONE", "LINEAR") : n \in 1 .. MaxLength}
    \cup {LutOf(n, FALSE, "DW3", "NEAREST") : n \in 1 .. MaxLength}
    \cup {LutOf(HalfDomainLength, TRUE, "NONE", "LINEAR"),
          LutOf(HalfDomainLength, TRUE, "DW3", "NEAREST")}

ResourcePrefixes == {<<>>, <<"o", "c", "i", "o", "_">>}

Init ==
    /\ shaderDesc \in
          {[NoDesc EXCEPT !.textureMaxWidth = m, !.resourcePrefix = p] :
              m \in 1 .. MaxTexWidth, p \in ResourcePrefixes}
    /\ lutData = NoLut
    /\ callpc = "idle"
    /\ ncalls = 0
    /\ sinkLog = <<>>
    /\ width = 0
    /\ height = 0
    /\ channel = <<>>
    /\ chn = <<>>
    /\ padpc = "entry"
    /\ padlog = NoLog
    /\ calls = NoCalls
    /\ NoSets

(* One call of GetLut1DGPUShaderProgram(shaderDesc, lut).  An exception of *)
(* PadLutChannels leaves the call before anything is registered.           *)
GetLut1DGPUShaderProgram(lut) ==
    LET defaultMaxWidth == shaderDesc.textureMaxWidth
        w == LutWidth(lut.length, defaultMaxWidth)
        h == LutHeight(lut.length, defaultMaxWidth)
        r == PadLutChannels(w, h, lut.values)
    IN  /\ ncalls < MaxCalls
        /\ ncalls' = ncalls + 1
        /\ lutData' = lut
        /\ width' = w
        /\ height' = h
        /\ channel' = lut.values
        /\ chn' = r.chn
        /\ padlog' = PadLog(r)
        /\ \E ub \in UbEnds :
              /\ padpc' = PadEnd(r, ub)
              /\ callpc' = PadEnd(r, ub)
        /\ IF r.end = "run"
           THEN /\ shaderDesc' = Emitted(shaderDesc, lut, w, h, r.chn)
                /\ sinkLog' = sinkLog \o EmittedLog(lut, h)
           ELSE UNCHANGED <<shaderDesc, sinkLog>>
        /\ UNCHANGED calls
        /\ UNCHANGED setVars

Next == \E lut \in Luts : GetLut1DGPUShaderProgram(lut)

Spec == Init /\ [][Next]_vars

---------------------------------------------------------------------------
(* Reading the emitted code. *)

Last(seq) == seq[Len(seq)]

(* Integer division as floor() and as float(int()) compute it. *)
FloorDiv(a, b) == a \div b

TruncDiv(a, b) == IF a >= 0 THEN a \div b ELSE -((-a) \div b)

(* The texel coordinates the helper computes for the index dep, before     *)
(* they are scaled to texture coordinates.                                 *)
ComputePos(helper, dep) ==
    LET y == IF helper.row = "floor" THEN FloorDiv(dep, helper.rowStep)
             ELSE TruncDiv(dep, helper.rowStep)
    IN  [row |-> y, col |-> dep - y * helper.rowStep]

ValidPadInput ==
    /\ height > 1 => width >= 2
    /\ Len(channel) % 3 = 0
    /\ Len(channel) > 0

LastStored == Stored(channel, CurrWidth(channel) - 1)

(* The reference layout: the input triple the texel (r, c) holds. *)
RefIndex(w, h, n, r, c) ==
    IF h > 1 THEN Min(r * (w - 1) + c, n - 1) ELSE Min(c, n - 1)

---------------------------------------------------------------------------
(* C1 - Packing length: for every valid input (width >= 2 when height > 1, *)
(* channel size divisible by 3, chn empty on entry) the call returns with  *)
(* exactly 3*width*height floats in chn.                                   *)
C1_PackingLength ==
    (padpc # "entry" /\ ValidPadInput)
        => (padpc = "returned" /\ Len(chn) = 3 * width * height)

(* C2 - Row continuity: when height > 1, the texel at column width-1 of    *)
(* row r of the packed buffer equals the texel at column 0 of row r+1, for *)
(* every r in [0, height-2], data rows and padding rows alike.             *)
C2_RowContinuity ==
    (PadEnded /\ height > 1)
        => \A r \in 0 .. (height - 2) :
              /\ (r + 1) * width < NumTexels(chn)
              /\ Texel(chn, r * width + width - 1) = Texel(chn, (r + 1) * width)

(* C2's case: three rows, the second one partly filled, the third one      *)
(* padding only, and texels that differ within a row.                      *)
C2_Witness ==
    /\ padpc = "returned"
    /\ height = 3
    /\ width >= 3
    /\ CurrWidth(channel) > width
    /\ CurrWidth(channel) + 1 < 2 * width
    /\ Texel(chn, 0) # Texel(chn, width - 1)
    /\ Texel(chn, width - 1) # Texel(chn, 2 * width - 1)

(* C3 - Edge hold: in the packed buffer the last input triple is there,    *)
(* and every texel from its first position on equals it: the rest of the   *)
(* last partly filled row and all of the tail padding.                     *)
C3_EdgeHold ==
    (PadEnded /\ ValidPadInput)
        => LET at == {p \in 0 .. (NumTexels(chn) - 1) : Texel(chn, p) = LastStored}
           IN  /\ at # {}
               /\ \A p \in at : \A q \in p .. (NumTexels(chn) - 1) : q \in at

(* C3's case: a returned buffer with two rows or more, whose last data row *)
(* is closed by the last triple and followed by tail padding.              *)
C3_Witness ==
    /\ padpc = "returned"
    /\ height > 1
    /\ CurrWidth(channel) > width
    /\ padlog.missing >= 2
    /\ Texel(chn, 0) # LastStored
    /\ Texel(chn, NumTexels(chn) - 1) = LastStored

(* C4 - Reference layout: for every valid input with N input triples the   *)
(* call returns the width*height texels where the texel (r, c) is the      *)
(* input triple min(r*(width-1)+c, N-1) when height > 1 and the texel c is *)
(* the input triple min(c, N-1) when height = 1.                           *)
C4_ReferenceLayout ==
    (padpc # "entry" /\ ValidPadInput)
        => /\ padpc = "returned"
           /\ NumTexels(chn) = width * height
           /\ \A r \in 0 .. (height - 1) : \A c \in 0 .. (width - 1) :
                 Texel(chn, r * width + c)
                     = Stored(channel,
                              RefIndex(width, height, CurrWidth(channel), r, c))

(* C6 - Sanitized writes: every float of the packed buffer is SanitizeFloat *)
(* of an input float, so it is finite; and in a returned buffer every      *)
(* finite input float is stored as it is.                                  *)
C6_Sanitized ==
    PadEnded
        => /\ \A j \in 1 .. Len(chn) :
                 /\ IsFinite(chn[j])
                 /\ \E i \in 1 .. Len(channel) : chn[j] = SanitizeFloat(channel[i])
           /\ padpc = "returned"
                 => \A i \in 1 .. Len(channel) :
                       IsFinite(channel[i]) => \E j \in 1 .. Len(chn) : chn[j] = channel[i]

(* C6's case: a float of the last input triple is not finite, and the      *)
(* rows, the row boundary and the tail padding were all written.           *)
C6_Witness ==
    /\ padpc = "returned"
    /\ height > 1
    /\ CurrWidth(channel) > width
    /\ padlog.missing > 0
    /\ \E c \in 1 .. 3 : ~IsFinite(channel[Len(channel) - 3 + c])
    /\ \E i \in 1 .. Len(channel) : IsFinite(channel[i])

---------------------------------------------------------------------------
(* Properties of GetLut1DGPUShaderProgram, under Spec. *)

Called == ncalls' = ncalls + 1

ValidCall == lutData.length >= 2 /\ shaderDesc.textureMaxWidth >= 2

PreconditionViolated(lut, desc) ==
    \/ lut.length < 2
    \/ desc.textureMaxWidth < 2
    \/ Len(lut.values) # 3 * lut.length
    \/ LutWidth(lut.length, desc.textureMaxWidth) <= 0
    \/ LutHeight(lut.length, desc.textureMaxWidth) <= 0

IsPrefix(s, t) == Len(s) <= Len(t) /\ SubSeq(t, 1, Len(s)) = s

(* C5 - Addressing: for a half-domain LUT at every texture maximum width   *)
(* (height 1 or more), and for a float-domain LUT on several rows, every   *)
(* index k in [0, length-1] is decomposed by the emitted helper into       *)
(* row = k div (width-1), column = k - row*(width-1), a row in [0,height)  *)
(* and a column in [0,width) whose texel in the registered buffer is the   *)
(* input triple k.                                                         *)
C5_Addressing ==
    (callpc # "idle" /\ ValidCall /\ (lutData.halfDomain \/ height > 1))
        => /\ callpc = "returned"
           /\ LET helper == Last(shaderDesc.helperCode)
                  tex == Last(shaderDesc.textures)
              IN  \A k \in 0 .. (lutData.length - 1) :
                     LET pos == ComputePos(helper, k)
                     IN  /\ pos.row \in 0 .. (tex.height - 1)
                         /\ pos.col \in 0 .. (tex.width - 1)
                         /\ Texel(tex.values, pos.row * tex.width + pos.col)
                               = Stored(lutData.values, k)

(* C7 - Precondition violations fault: a call with LUT length < 2, texture *)
(* maximum width < 2, a width or height that is not positive, or a value   *)
(* array whose size is not 3*length ends in an error, registers no texture *)
(* and appends nothing to the declaration, helper and function code.       *)
C7_PreconditionFaults ==
    [][(Called /\ PreconditionViolated(lutData', shaderDesc))
          => (callpc' # "returned" /\ shaderDesc' = shaderDesc /\ sinkLog' = sinkLog)]_vars

(* C8 - One case per call: a half-domain LUT gets the 2D texture, the half *)
(* helper and 2D sampling, also when height = 1; a float-domain LUT with   *)
(* height > 1 gets the 2D texture, the float helper and 2D sampling; any   *)
(* other LUT gets the 1D texture, no helper and 1D sampling.  So a 2D      *)
(* texture is declared and a helper emitted if and only if the sampling    *)
(* code samples in 2D through that helper, and a 1D texture is declared    *)
(* and no helper emitted if and only if it samples in 1D.                  *)
C8_OneCasePerCall ==
    callpc = "returned"
        => LET decl == Last(shaderDesc.declareCode)
               fn == Last(shaderDesc.functionCode)
               helpers == {i \in 1 .. Len(shaderDesc.helperCode) :
                              shaderDesc.helperCode[i].name = decl.name \o ComputePosTag}
               is2D == decl.declare = "tex2D" /\ Cardinality(helpers) = 1
               is1D == decl.declare = "tex1D" /\ helpers = {}
               via == fn.sample = "sampleTex2D" /\ fn.pos = decl.name \o ComputePosTag
           IN  /\ fn.name = decl.name
               /\ is2D <=> via
               /\ is1D <=> fn.sample = "sampleTex1D"
               /\ is2D \/ is1D
               /\ lutData.halfDomain
                     => /\ is2D
                        /\ \A i \in helpers :
                              /\ shaderDesc.helperCode[i].dep = "rawHalf"
                              /\ shaderDesc.helperCode[i].row = "floor"
               /\ (~lutData.halfDomain /\ height > 1)
                     => /\ is2D
                        /\ \A i \in helpers :
                              /\ shaderDesc.helperCode[i].dep = "min(f,1)*scale"
                              /\ shaderDesc.helperCode[i].row = "int"
               /\ (~lutData.halfDomain /\ height <= 1) => is1D

(* C8's case: a half-domain LUT that fits one row. *)
C8_Witness ==
    /\ callpc = "returned"
    /\ lutData.halfDomain
    /\ height = 1
    /\ Last(shaderDesc.functionCode).sample = "sampleTex2D"

(* C9 - Effect of a call: every call whose preconditions hold registers    *)
(* exactly one texture (the packed buffer, the cache identifier, width,    *)
(* height, interpolation) before it appends any code, appends one          *)
(* declaration, one function text and at most one helper, and leaves what  *)
(* was there before as it was.                                             *)
C9_EffectOfACall ==
    [][(Called /\ ~PreconditionViolated(lutData', shaderDesc))
          => /\ Len(shaderDesc'.textures) = Len(shaderDesc.textures) + 1
             /\ IsPrefix(shaderDesc.textures, shaderDesc'.textures)
             /\ LET tex == Last(shaderDesc'.textures)
                IN  /\ tex.values = chn'
                    /\ tex.cacheID = lutData'.cacheID
                    /\ tex.width = width'
                    /\ tex.height = height'
                    /\ tex.interpolation = lutData'.interpolation
             /\ Len(shaderDesc'.declareCode) = Len(shaderDesc.declareCode) + 1
             /\ IsPrefix(shaderDesc.declareCode, shaderDesc'.declareCode)
             /\ Len(shaderDesc'.functionCode) = Len(shaderDesc.functionCode) + 1
             /\ IsPrefix(shaderDesc.functionCode, shaderDesc'.functionCode)
             /\ Len(shaderDesc'.helperCode) <= Len(shaderDesc.helperCode) + 1
             /\ IsPrefix(shaderDesc.helperCode, shaderDesc'.helperCode)
             /\ IsPrefix(sinkLog \o <<"addTexture">>, sinkLog')
             /\ \A i \in (Len(sinkLog) + 2) .. Len(sinkLog') :
                   sinkLog'[i] # "addTexture"]_vars

(* C10 - Names: the names derived by the calls made on one shader          *)
(* description, and the sampler names their textures are registered        *)
(* under, are pairwise different.                                          *)
C10_DistinctNames ==
    /\ \A i, j \in 1 .. Len(shaderDesc.textures) :
          i # j => shaderDesc.textures[i].name # shaderDesc.textures[j].name
    /\ \A i, j \in 1 .. Len(shaderDesc.declareCode) :
          i # j => shaderDesc.declareCode[i].name # shaderDesc.declareCode[j].name
    /\ Len(shaderDesc.declareCode) = Len(shaderDesc.textures)

(* C10's case: two calls have registered a texture each. *)
C10_Witness ==
    /\ Len(shaderDesc.textures) >= 2
    /\ ncalls >= 2
    /\ shaderDesc.declareCode[2].name
          = shaderDesc.resourcePrefix \o Lut1dTag \o <<"1">>

---------------------------------------------------------------------------
(* C11 - Texture geometry: for every length >= 2 and texture maximum width *)
(* >= 2 the call derives width = min(length, maxTextureWidth) and          *)
(* height = floor(length / maxTextureWidth) + 1; then width*height >=      *)
(* length, and height = 1 implies width = length.                          *)
C11_Geometry ==
    (callpc # "idle" /\ ValidCall)
        => LET length == lutData.length
               maxTextureWidth == shaderDesc.textureMaxWidth
           IN  /\ width = (IF length < maxTextureWidth THEN length
                           ELSE maxTextureWidth)
               /\ height = (length \div maxTextureWidth) + 1
               /\ width * height >= length
               /\ height = 1 => width = length
               /\ callpc = "returned"
                     => /\ Last(shaderDesc.textures).width = width
                        /\ Last(shaderDesc.textures).height = height

(* C11's case: a LUT longer than the texture maximum width, registered on  *)
(* two rows that it does not fill.                                         *)
C11_Witness ==
    /\ callpc = "returned"
    /\ ValidCall
    /\ lutData.length > shaderDesc.textureMaxWidth
    /\ width = shaderDesc.textureMaxWidth
    /\ height = 2
    /\ width * height > lutData.length

---------------------------------------------------------------------------
(* Properties of the locals of PadLutChannels. *)

(* The number of triples in chn when the tail padding starts. *)
WrittenBeforePadding == USub(width * height, padlog.missing)

ReadsInRange == \A i \in padlog.reads : 0 <= i /\ i <= CurrWidth(channel) - 1

ExactDivision ==
    /\ height > 1
    /\ width >= 2
    /\ CurrWidth(channel) % (width - 1) = 0

(* C14 - No out-of-range read: for every valid input (width >= 2 when      *)
(* height > 1, channel size divisible by 3) every input triple index the   *)
(* call reads, in the stepped loop, the leftover copy and the tail         *)
(* padding, lies in [0, currWidth-1].                                      *)
C14_ReadsInRange ==
    (padpc # "entry" /\ ValidPadInput)
        => (padpc \notin UbEnds /\ ReadsInRange)

(* C15 - Exact division, as stated: when height > 1 and the number of      *)
(* input triples is a multiple of step = width-1, leftover equals 1 when   *)
(* the stepped loop ends.                                                  *)
C15_LeftoverIsOne ==
    (padpc # "entry" /\ ExactDivision) => padlog.leftover = 1

(* C15 - Exact division, amended: when height > 1 and the number of input  *)
(* triples is a multiple of step = width-1, leftover equals step when the  *)
(* stepped loop ends: the loop leaves the last step input triples, and the *)
(* leftover path copies the first step-1 of them and then the final input  *)
(* triple once, so that the rows end with the final input triple.          *)
C15_LeftoverIsStep ==
    (padpc # "entry" /\ ExactDivision)
        => /\ padlog.leftover = width - 1
           /\ padpc \notin UbEnds
           /\ ReadsInRange
           /\ LET n == CurrWidth(channel)
                  rows == n + (n \div (width - 1)) - 1
              IN  /\ WrittenBeforePadding = rows
                  /\ NumTexels(chn) >= rows
                  /\ Texel(chn, rows - 1) = LastStored
                  /\ \A p \in 0 .. (rows - 1) :
                        Texel(chn, p)
                            = Stored(channel,
                                     Min(p - (p \div width), n - 1))

(* C15's case: the test with width 4, height 3 and 9 input triples. *)
C15_Witness ==
    /\ padpc = "returned"
    /\ width = 4
    /\ height = 3
    /\ CurrWidth(channel) = 9
    /\ padlog.leftover = 3
    /\ Len(chn) = 36

(* C16 - No wrap-around with the derived geometry: for every length >= 2   *)
(* and texture maximum width >= 2 the triples written before the tail      *)
(* padding are at most width*height, so missingEntries does not wrap       *)
(* around, the padding loop runs at most width*height times and the        *)
(* registered buffer has exactly width*height triples.                     *)
C16_NoWrapAround ==
    (callpc # "idle" /\ ValidCall)
        => /\ WrittenBeforePadding <= width * height
           /\ 0 <= padlog.missing
           /\ padlog.missing <= width * height
           /\ callpc = "returned"
           /\ NumTexels(Last(shaderDesc.textures).values) = width * height

---------------------------------------------------------------------------
(* ColorSpaceSet (ColorSpaceSet.cpp).  A color space is a record with its  *)
(* name, a text; a set is the vector m_colorSpaces of its Impl, here a     *)
(* sequence of color spaces.                                               *)

UpperCase ==
    <<"A", "B", "C", "D", "E", "F", "G", "H", "I", "J", "K", "L", "M",
      "N", "O", "P", "Q", "R", "S", "T", "U", "V", "W", "X", "Y", "Z">>

LowerCase ==
    <<"a", "b", "c", "d", "e", "f", "g", "h", "i", "j", "k", "l", "m",
      "n", "o", "p", "q", "r", "s", "t", "u", "v", "w", "x", "y", "z">>

(* The lower-case letter of every upper-case letter. *)
LowerOfUpper ==
    [c \in {UpperCase[i] : i \in 1 .. Len(UpperCase)} |->
        LowerCase[CHOOSE i \in 1 .. Len(UpperCase) : UpperCase[i] = c]]

LowerChar(c) == IF c \in DOMAIN LowerOfUpper THEN LowerOfUpper[c] ELSE c

(* pystring::lower *)
RECURSIVE lower(_)
lower(str) ==
    IF str = <<>> THEN <<>>
    ELSE <<LowerChar(Head(str))>> \o lower(Tail(str))

(* ColorSpace::getName and ColorSpace::createEditableCopy. *)
GetName(cs) == cs.name

CreateEditableCopy(cs) == [name |-> cs.name]

(* The 1-based positions of the entries whose name is str in lower case. *)
Matches(colorSpaces, str) ==
    {idx \in 1 .. Len(colorSpaces) : lower(GetName(colorSpaces[idx])) = str}

First(positions) == CHOOSE idx \in positions : \A j \in positions : idx <= j

(* Impl::getIndex: the 0-based index of the entry named csName, or -1. *)
ImplGetIndex(colorSpaces, csName) ==
    IF csName # <<>> /\ Matches(colorSpaces, lower(csName)) # {}
    THEN First(Matches(colorSpaces, lower(csName))) - 1
    ELSE -1

(* Impl::add(cs): the vector afterwards, and whether it threw.             *)
(* ImplAddExactName replaces an entry only when the names are the same     *)
(* character by character (a faulty variant).                              *)
ImplAddExactName(colorSpaces, cs) ==
    LET found == {idx \in 1 .. Len(colorSpaces) :
                     GetName(colorSpaces[idx]) = GetName(cs)}
    IN  IF lower(GetName(cs)) = <<>>
        THEN [colorSpaces |-> colorSpaces, threw |-> TRUE]
        ELSE IF found # {}
        THEN [colorSpaces |->
                 [colorSpaces EXCEPT ![First(found)] = CreateEditableCopy(cs)],
              threw |-> FALSE]
        ELSE [colorSpaces |-> Append(colorSpaces, CreateEditableCopy(cs)),
              threw |-> FALSE]

ImplAdd(colorSpaces, cs) ==
    LET csName == lower(GetName(cs))
        found == Matches(colorSpaces, csName)
    IN  IF csName = <<>>
        THEN [colorSpaces |-> colorSpaces, threw |-> TRUE]
        ELSE IF found # {}
        THEN [colorSpaces |->
                 [colorSpaces EXCEPT ![First(found)] = CreateEditableCopy(cs)],
              threw |-> FALSE]
        ELSE [colorSpaces |-> Append(colorSpaces, CreateEditableCopy(cs)),
              threw |-> FALSE]

(* Impl::add(rhs): for (auto & cs : rhs.m_colorSpaces) add(cs), from the   *)
(* 1-based position from on; an exception of add(cs) ends the loop.        *)
RECURSIVE ImplAddAll(_, _, _)
ImplAddAll(colorSpaces, rhs, from) ==
    IF from > Len(rhs) THEN [colorSpaces |-> colorSpaces, threw |-> FALSE]
    ELSE LET added == ImplAdd(colorSpaces, rhs[from])
         IN  IF added.threw THEN added
             ELSE ImplAddAll(added.colorSpaces, rhs, from + 1)

(* vector::erase of the entry at the 1-based position idx. *)
Erase(colorSpaces, idx) ==
    SubSeq(colorSpaces, 1, idx - 1)
        \o SubSeq(colorSpaces, idx + 1, Len(colorSpaces))

(* Impl::remove(csName) *)
ImplRemove(colorSpaces, csName) ==
    LET name == lower(csName)
        found == Matches(colorSpaces, name)
    IN  IF name = <<>> \/ found = {} THEN colorSpaces
        ELSE Erase(colorSpaces, First(found))

(* Impl::remove(rhs), rhs another set: remove(cs->getName()) for every cs  *)
(* of rhs.                                                                 *)
RECURSIVE ImplRemoveAll(_, _, _)
ImplRemoveAll(colorSpaces, rhs, from) ==
    IF from > Len(rhs) THEN colorSpaces
    ELSE ImplRemoveAll(ImplRemove(colorSpaces, GetName(rhs[from])), rhs,
                       from + 1)

(* Impl::remove(rhs), rhs the set itself: the range-for walks the vector   *)
(* that remove(csName) erases from, with the end it took before the loop.  *)
(* The iterator itr (a 1-based position) is used after erase invalidated   *)
(* it, which is undefined.  As the vector's storage is laid out, the loop  *)
(* ends when itr meets the old end, and faults when itr is at a slot whose *)
(* entry was moved away.                                                   *)
RECURSIVE ImplRemoveSelf(_, _, _)
ImplRemoveSelf(colorSpaces, itr, oldEnd) ==
    IF itr = oldEnd THEN [colorSpaces |-> colorSpaces, end |-> "running"]
    ELSE IF itr > Len(colorSpaces)
    THEN [colorSpaces |-> colorSpaces, end |-> "segfault"]
    ELSE ImplRemoveSelf(ImplRemove(colorSpaces, GetName(colorSpaces[itr])),
                        itr + 1, oldEnd)

(* Impl::clear *)
ImplClear(colorSpaces) == <<>>

(* Impl::operator=, as ColorSpaceSet::createEditableCopy uses it. *)
RECURSIVE CopyOfSet(_)
CopyOfSet(colorSpaces) ==
    IF colorSpaces = <<>> THEN <<>>
    ELSE <<CreateEditableCopy(Head(colorSpaces))>> \o CopyOfSet(Tail(colorSpaces))

(* operator||(lcss, rcss).  OperatorOrAppendsAll appends the entries of r  *)
(* without looking for their names (a faulty variant).                     *)
OperatorOrAppendsAll(l, r) == CopyOfSet(l) \o CopyOfSet(r)

OperatorOr(l, r) == ImplAddAll(CopyOfSet(l), r, 1).colorSpaces

(* operator&&(lcss, rcss): the loop over rcss from the 1-based position    *)
(* from on, css the set built so far.                                      *)
RECURSIVE AndLoop(_, _, _, _)
AndLoop(l, r, from, css) ==
    IF from > Len(r) THEN css
    ELSE LET tmp == r[from]
         IN  AndLoop(l, r, from + 1,
                     IF ImplGetIndex(l, GetName(tmp)) # -1
                     THEN ImplAdd(css, tmp).colorSpaces
                     ELSE css)

OperatorAnd(l, r) == AndLoop(l, r, 1, <<>>)

(* operator-(lcss, rcss): the loop over lcss.  OperatorMinusOfRight takes  *)
(* the operands the other way round (a faulty variant).                    *)
RECURSIVE MinusLoop(_, _, _, _)
MinusLoop(l, r, from, css) ==
    IF from > Len(l) THEN css
    ELSE LET tmp == l[from]
         IN  MinusLoop(l, r, from + 1,
                       IF ImplGetIndex(r, GetName(tmp)) = -1
                       THEN ImplAdd(css, tmp).colorSpaces
                       ELSE css)

OperatorMinusOfRight(l, r) == MinusLoop(r, l, 1, <<>>)

OperatorMinus(l, r) == MinusLoop(l, r, 1, <<>>)

---------------------------------------------------------------------------
(* The ColorSpaceSet programs.  The color spaces are named cs1, cs2, ...,  *)
(* the first one also in upper case, and one has no name.  In the first    *)
(* program lcss is created empty and changed by any sequence of            *)
(* operations, whose argument set rcss is any set that MaxArgumentSize     *)
(* addColorSpace calls can build; in the second one lcss and rcss are any  *)
(* two sets that addColorSpace can build, and the operators are applied.   *)

CsName(i) == <<"c", "s">> \o ToDecimal(i)

UpperCsName == <<"C", "S", "1">>

ColorSpaceNames ==
    {CsName(i) : i \in 1 .. MaxColorSpaces} \cup {UpperCsName, <<>>}

ColorSpaces == {[name |-> n] : n \in ColorSpaceNames}

RECURSIVE SetsBuiltIn(_)
SetsBuiltIn(n) ==
    IF n = 0 THEN {<<>>}
    ELSE LET sets == SetsBuiltIn(n - 1)
         IN  sets \cup {ImplAdd(s, cs).colorSpaces : s \in sets, cs \in ColorSpaces}

ColorSpaceSets == SetsBuiltIn(MaxColorSpaces)

ArgumentSets == SetsBuiltIn(MaxArgumentSize)

NoProgram ==
    /\ width = 0
    /\ height = 0
    /\ channel = <<>>
    /\ chn = <<>>
    /\ padpc = "entry"
    /\ padlog = NoLog
    /\ shaderDesc = NoDesc
    /\ lutData = NoLut
    /\ callpc = "idle"
    /\ ncalls = 0
    /\ sinkLog = <<>>
    /\ calls = NoCalls

InitSet ==
    /\ lcss = <<>>
    /\ rcss \in ArgumentSets
    /\ setOp = NoSetOp
    /\ setpc = "running"
    /\ NoProgram

InitSetOps ==
    /\ lcss \in ColorSpaceSets
    /\ rcss \in ColorSpaceSets
    /\ setOp = NoSetOp
    /\ setpc = "running"
    /\ NoProgram

SetOp(op, arg, aliased, result, threw) ==
    [op |-> op, arg |-> arg, aliased |-> aliased, result |-> result,
     threw |-> threw]

OtherVarsUnchanged ==
    /\ UNCHANGED padVars
    /\ UNCHANGED descVars
    /\ UNCHANGED calls

(* lcss->addColorSpace(cs) *)
addColorSpace(cs) ==
    /\ setpc = "running"
    /\ LET added == ImplAdd(lcss, cs)
       IN  /\ lcss' = added.colorSpaces
           /\ setOp' = SetOp("addColorSpace", GetName(cs), FALSE, <<>>, added.threw)
    /\ UNCHANGED <<rcss, setpc>>
    /\ OtherVarsUnchanged

(* lcss->addColorSpaces(css), css being rcss or lcss itself. *)
addColorSpaces(aliased) ==
    /\ setpc = "running"
    /\ LET added == ImplAddAll(lcss, IF aliased THEN lcss ELSE rcss, 1)
       IN  /\ lcss' = added.colorSpaces
           /\ setOp' = SetOp("addColorSpaces", <<>>, aliased, <<>>, added.threw)
    /\ UNCHANGED <<rcss, setpc>>
    /\ OtherVarsUnchanged

(* lcss->removeColorSpace(name) *)
removeColorSpace(name) ==
    /\ setpc = "running"
    /\ lcss' = ImplRemove(lcss, name)
    /\ setOp' = SetOp("removeColorSpace", name, FALSE, <<>>, FALSE)
    /\ UNCHANGED <<rcss, setpc>>
    /\ OtherVarsUnchanged

(* lcss->removeColorSpaces(css), css being rcss or lcss itself.  With lcss *)
(* itself and an entry to erase the loop is undefined: it goes on as the   *)
(* storage is laid out, or a checking build aborts at the first use of the *)
(* invalidated iterator.                                                   *)
removeColorSpaces(aliased) ==
    /\ setpc = "running"
    /\ IF ~aliased
       THEN /\ lcss' = ImplRemoveAll(lcss, rcss, 1)
            /\ setpc' = setpc
       ELSE IF lcss = <<>>
       THEN /\ lcss' = lcss
            /\ setpc' = setpc
       ELSE \/ LET removed == ImplRemoveSelf(lcss, 1, Len(lcss) + 1)
               IN  /\ lcss' = removed.colorSpaces
                   /\ setpc' = removed.end
            \/ /\ lcss' = ImplRemove(lcss, GetName(lcss[1]))
               /\ setpc' = "abort"
    /\ setOp' = SetOp("removeColorSpaces", <<>>, aliased, <<>>, FALSE)
    /\ UNCHANGED rcss
    /\ OtherVarsUnchanged

(* lcss->clearColorSpaces() *)
clearColorSpaces ==
    /\ setpc = "running"
    /\ lcss' = ImplClear(lcss)
    /\ setOp' = SetOp("clearColorSpaces", <<>>, FALSE, <<>>, FALSE)
    /\ UNCHANGED <<rcss, setpc>>
    /\ OtherVarsUnchanged

(* css = lcss || rcss, css = lcss && rcss, css = lcss - rcss *)
ApplyOperatorOr ==
    /\ setpc = "running"
    /\ setOp' = SetOp("operator||", <<>>, FALSE, OperatorOr(lcss, rcss), FALSE)
    /\ UNCHANGED <<lcss, rcss, setpc>>
    /\ OtherVarsUnchanged

ApplyOperatorAnd ==
    /\ setpc = "running"
    /\ setOp' = SetOp("operator&&", <<>>, FALSE, OperatorAnd(lcss, rcss), FALSE)
    /\ UNCHANGED <<lcss, rcss, setpc>>
    /\ OtherVarsUnchanged

ApplyOperatorMinus ==
    /\ setpc = "running"
    /\ setOp' = SetOp("operator-", <<>>, FALSE, OperatorMinus(lcss, rcss), FALSE)
    /\ UNCHANGED <<lcss, rcss, setpc>>
    /\ OtherVarsUnchanged

NextSet ==
    \/ \E cs \in ColorSpaces : addColorSpace(cs)
    \/ \E aliased \in BOOLEAN : addColorSpaces(aliased)
    \/ \E name \in ColorSpaceNames : removeColorSpace(name)
    \/ \E aliased \in BOOLEAN : removeColorSpaces(aliased)
    \/ clearColorSpaces

SpecSet == InitSet /\ [][NextSet]_vars

NextSetOps ==
    \/ ApplyOperatorOr
    \/ ApplyOperatorAnd
    \/ ApplyOperatorMinus

SpecSetOps == InitSetOps /\ [][NextSetOps]_vars

---------------------------------------------------------------------------
(* Reading a ColorSpaceSet. *)

(* The names of a set in lower case, in its order, and as a set. *)
RECURSIVE LowerNames(_)
LowerNames(colorSpaces) ==
    IF colorSpaces = <<>> THEN <<>>
    ELSE <<lower(GetName(Head(colorSpaces)))>> \o LowerNames(Tail(colorSpaces))

NameSet(colorSpaces) ==
    {lower(GetName(colorSpaces[i])) : i \in 1 .. Len(colorSpaces)}

HasName(colorSpaces, cs) == lower(GetName(cs)) \in NameSet(colorSpaces)

(* The entry of a set that has the name of cs. *)
EntryNamedLike(colorSpaces, cs) ==
    colorSpaces[CHOOSE i \in 1 .. Len(colorSpaces) :
                    lower(GetName(colorSpaces[i])) = lower(GetName(cs))]

NoDuplicateName(colorSpaces) ==
    \A i, j \in 1 .. Len(colorSpaces) :
        i # j => lower(GetName(colorSpaces[i])) # lower(GetName(colorSpaces[j]))

NoEmptyName(colorSpaces) ==
    \A i \in 1 .. Len(colorSpaces) : GetName(colorSpaces[i]) # <<>>

(* The entries of colorSpaces whose name is in other (keep) or is not      *)
(* (~keep), in the order of colorSpaces.                                   *)
RECURSIVE Selected(_, _, _)
Selected(colorSpaces, other, keep) ==
    IF colorSpaces = <<>> THEN <<>>
    ELSE (IF HasName(other, Head(colorSpaces)) = keep
          THEN <<Head(colorSpaces)>> ELSE <<>>)
         \o Selected(Tail(colorSpaces), other, keep)

---------------------------------------------------------------------------
(* C12 - Union without duplication: l || r holds each name of l and of r   *)
(* exactly once, names compared without case; its size is the number of    *)
(* distinct names of l and r together; the entries of l keep their order   *)
(* and come first (an entry whose name is also in r is replaced, at its    *)
(* position, by a copy of r's entry), followed by the names found only in  *)
(* r in r's order; l and r are left unchanged.                             *)
C12_Union ==
    [][setOp'.op = "operator||"
          => LET css == setOp'.result
             IN  /\ lcss' = lcss
                 /\ rcss' = rcss
                 /\ NoDuplicateName(css)
                 /\ NameSet(css) = NameSet(lcss) \cup NameSet(rcss)
                 /\ Len(css) = Cardinality(NameSet(lcss) \cup NameSet(rcss))
                 /\ LowerNames(css)
                       = LowerNames(lcss) \o LowerNames(Selected(rcss, lcss, FALSE))
                 /\ \A i \in 1 .. Len(lcss) :
                       css[i] = IF HasName(rcss, lcss[i])
                                THEN EntryNamedLike(rcss, lcss[i])
                                ELSE lcss[i]
                 /\ SubSeq(css, Len(lcss) + 1, Len(css))
                       = Selected(rcss, lcss, FALSE)]_vars

(* C12's case: the union of two sets that share a name written in          *)
(* different case and have a name of their own each.                       *)
C12_Witness ==
    /\ setOp.op = "operator||"
    /\ Len(lcss) >= 2
    /\ Len(rcss) >= 2
    /\ \E i \in 1 .. Len(lcss) :
          /\ HasName(rcss, lcss[i])
          /\ EntryNamedLike(rcss, lcss[i]) # lcss[i]
    /\ \E i \in 1 .. Len(lcss) : ~HasName(rcss, lcss[i])
    /\ \E j \in 1 .. Len(rcss) : ~HasName(lcss, rcss[j])
    /\ Len(setOp.result) = MaxColorSpaces

---------------------------------------------------------------------------
(* C13 - Difference and intersection select by name and keep the order:    *)
(* l - r holds exactly the entries of l whose name is not in r, in l's     *)
(* order, and l && r exactly the entries whose name is in both l and r (as *)
(* r holds them, in r's order); so l - r and l && r have no name in common *)
(* and their sizes add up to the size of l; l and r are left unchanged.    *)
C13_DifferenceAndIntersection ==
    [][setOp'.op \in {"operator-", "operator&&"}
          => LET minus == OperatorMinus(lcss, rcss)
                 and == OperatorAnd(lcss, rcss)
             IN  /\ lcss' = lcss
                 /\ rcss' = rcss
                 /\ setOp'.result = (IF setOp'.op = "operator-" THEN minus ELSE and)
                 /\ minus = Selected(lcss, rcss, FALSE)
                 /\ and = Selected(rcss, lcss, TRUE)
                 /\ NameSet(minus) = NameSet(lcss) \ NameSet(rcss)
                 /\ NameSet(and) = NameSet(lcss) \cap NameSet(rcss)
                 /\ NoDuplicateName(minus)
                 /\ NoDuplicateName(and)
                 /\ NameSet(minus) \cap NameSet(and) = {}
                 /\ Len(minus) + Len(and) = Len(lcss)]_vars

(* C13's case: the difference of two sets that share a name written in     *)
(* different case, where l has two names of its own and r one.             *)
C13_Witness ==
    /\ setOp.op = "operator-"
    /\ Len(lcss) = MaxColorSpaces
    /\ Len(setOp.result) >= 2
    /\ Len(setOp.result) < Len(lcss)
    /\ \E i \in 1 .. Len(lcss) :
          /\ HasName(rcss, lcss[i])
          /\ EntryNamedLike(rcss, lcss[i]) # lcss[i]
    /\ OperatorAnd(lcss, rcss) # <<>>

---------------------------------------------------------------------------
(* C17 - Invariants of a ColorSpaceSet: after any sequence of addColorSpace, *)
(* addColorSpaces, removeColorSpace, removeColorSpaces and clearColorSpaces *)
(* no two entries have the same name, compared without case, and no entry  *)
(* has an empty name; adding a color space whose name is there replaces    *)
(* that entry at its position and leaves the size and the other entries as *)
(* they were; adding a color space with an empty name raises an exception  *)
(* and leaves the set unchanged.                                           *)
C17_SetInvariants ==
    [][/\ NoDuplicateName(lcss')
       /\ NoEmptyName(lcss')
       /\ setOp'.op = "addColorSpace"
             => LET cs == [name |-> setOp'.arg]
                    at == Matches(lcss, lower(GetName(cs)))
                IN  /\ GetName(cs) = <<>>
                          => (setOp'.threw /\ lcss' = lcss)
                    /\ GetName(cs) # <<>> => ~setOp'.threw
                    /\ (GetName(cs) # <<>> /\ HasName(lcss, cs))
                          => /\ Len(lcss') = Len(lcss)
                             /\ Cardinality(at) = 1
                             /\ \A i \in 1 .. Len(lcss) :
                                   lcss'[i] = IF i \in at THEN cs ELSE lcss[i]
                    /\ (GetName(cs) # <<>> /\ ~HasName(lcss, cs))
                          => lcss' = Append(lcss, cs)]_vars

(* C17's case: a color space was added whose name, in another case, was in *)
(* the full set, at the first position.                                    *)
C17_Witness ==
    /\ setOp.op = "addColorSpace"
    /\ setOp.arg = UpperCsName
    /\ Len(lcss) = MaxColorSpaces
    /\ GetName(lcss[1]) = UpperCsName
    /\ setpc = "running"

---------------------------------------------------------------------------
(* GetLut1DGPUShaderProgram called by several callers on one shader        *)
(* description.  The function takes no lock, so between two of its calls   *)
(* on shaderDesc another caller's call may run; every method of the shader *)
(* description is one step.  calls[p] holds the locals of caller p:        *)
(*   pc        where the call is                                           *)
(*   lut, width, height, values, resName    the locals of the code         *)
(*   readAt    history: what getNumTextures() returned for resName         *)
(*   texIndex  history: the 1-based position of its texture, 0 before      *)

SharedLuts ==
    {LutOf(2, FALSE, "NONE", "LINEAR"),
     LutOf(HalfDomainLength, TRUE, "DW3", "NEAREST")}

(* The lines up to the PadLutChannels call: the geometry and the values. *)
ComputeValues(p, lut) ==
    /\ calls[p].pc = "idle"
    /\ LET defaultMaxWidth == shaderDesc.textureMaxWidth
           w == LutWidth(lut.length, defaultMaxWidth)
           h == LutHeight(lut.length, defaultMaxWidth)
           r == PadLutChannels(w, h, lut.values)
       IN  \E ub \in UbEnds :
              calls' = [calls EXCEPT ![p] =
                           [@ EXCEPT !.pc = IF r.end = "run" THEN "padded"
                                            ELSE PadEnd(r, ub),
                                     !.lut = lut,
                                     !.width = w,
                                     !.height = h,
                                     !.values = r.chn]]
    /\ UNCHANGED shaderDesc

(* resName << getResourcePrefix() << "lut1d_" << getNumTextures() *)
BuildResName(p) ==
    /\ calls[p].pc = "padded"
    /\ calls' = [calls EXCEPT ![p] =
                    [@ EXCEPT !.pc = "named",
                              !.resName = ResName(shaderDesc),
                              !.readAt = GetNumTextures(shaderDesc)]]
    /\ UNCHANGED shaderDesc

(* The name addTexture is given: the sampler name of the local resName.    *)
(* SamplerNameAtRegistration builds the name anew from the counter at the  *)
(* registration (a variant in which read and registration are one step).   *)
SamplerNameAtRegistration(desc, call) == GetSamplerName(ResName(desc))

SamplerNameOfCall(desc, call) == GetSamplerName(call.resName)

(* shaderDesc->addTexture(...) *)
RegisterTexture(p) ==
    /\ calls[p].pc = "named"
    /\ shaderDesc' = AddTexture(shaderDesc,
                                SamplerNameOfCall(shaderDesc, calls[p]),
                                calls[p].lut.cacheID, calls[p].width,
                                calls[p].height, calls[p].lut.interpolation,
                                calls[p].values)
    /\ calls' = [calls EXCEPT ![p] =
                    [@ EXCEPT !.pc = "registered",
                              !.texIndex = GetNumTextures(shaderDesc) + 1]]

(* shaderDesc->addToDeclareShaderCode(...) *)
DeclareTexture(p) ==
    /\ calls[p].pc = "registered"
    /\ shaderDesc' =
          AddToDeclareShaderCode(
              shaderDesc,
              DeclareText(IF DeclareUses2D(calls[p].height, calls[p].lut)
                          THEN "tex2D" ELSE "tex1D",
                          calls[p].resName))
    /\ calls' = [calls EXCEPT ![p] =
                    [@ EXCEPT !.pc = IF DeclareUses2D(calls[p].height, calls[p].lut)
                                     THEN "declared2D" ELSE "declared"]]

(* shaderDesc->addToHelperShaderCode(...) *)
EmitHelper(p) ==
    /\ calls[p].pc = "declared2D"
    /\ shaderDesc' =
          AddToHelperShaderCode(
              shaderDesc,
              HelperText(calls[p].lut, calls[p].resName, calls[p].width,
                         calls[p].height))
    /\ calls' = [calls EXCEPT ![p] = [@ EXCEPT !.pc = "declared"]]

(* shaderDesc->addToFunctionShaderCode(...) *)
EmitFunction(p) ==
    /\ calls[p].pc = "declared"
    /\ shaderDesc' =
          AddToFunctionShaderCode(
              shaderDesc,
              FunctionText(calls[p].lut, calls[p].resName, calls[p].height))
    /\ calls' = [calls EXCEPT ![p] = [@ EXCEPT !.pc = "done"]]

NextShared ==
    \E p \in Callers :
        /\ \/ \E lut \in SharedLuts : ComputeValues(p, lut)
           \/ BuildResName(p)
           \/ RegisterTexture(p)
           \/ DeclareTexture(p)
           \/ EmitHelper(p)
           \/ EmitFunction(p)
        /\ UNCHANGED padVars
        /\ UNCHANGED <<lutData, callpc, ncalls, sinkLog>>
        /\ UNCHANGED setVars

(* The shader description the callers share: the smallest and the largest *)
(* texture maximum width, with either prefix.                              *)
InitShared ==
    /\ Init
    /\ shaderDesc.textureMaxWidth \in {2, MaxTexWidth}

SpecShared == InitShared /\ [][NextShared]_vars

---------------------------------------------------------------------------
(* Reading the shared shader description. *)

RegisteredCallers == {p \in Callers : calls[p].texIndex > 0}

TextureOf(p) == shaderDesc.textures[calls[p].texIndex]

(* No other call registered between the read of the counter by p and the   *)
(* registration by p.                                                      *)
Serialized(p) == calls[p].texIndex = calls[p].readAt + 1

(* C18 - No serialization: the call reads getNumTextures() for the texture *)
(* name and calls addTexture in two steps, so the name registered is the   *)
(* one built from the earlier read; the names of the registered textures   *)
(* are pairwise different exactly when no registration fell between the    *)
(* read and the registration of any call, and two calls that read the same *)
(* counter both register a texture under the same name.                    *)
C18_NoSerialization ==
    /\ \A p \in RegisteredCallers :
          /\ TextureOf(p).name
                = GetSamplerName(shaderDesc.resourcePrefix \o Lut1dTag
                                     \o ToDecimal(calls[p].readAt))
          /\ calls[p].texIndex >= calls[p].readAt + 1
    /\ \A p, q \in RegisteredCallers :
          p # q => /\ calls[p].texIndex # calls[q].texIndex
                   /\ (calls[p].readAt = calls[q].readAt)
                         <=> (TextureOf(p).name = TextureOf(q).name)
    /\ (\A p \in RegisteredCallers : Serialized(p))
          <=> (\A p, q \in RegisteredCallers :
                  p # q => TextureOf(p).name # TextureOf(q).name)
    /\ Cardinality(RegisteredCallers) = GetNumTextures(shaderDesc)

(* C18's case: two calls have ended that both read the counter before      *)
(* either registered, and their two textures and declarations have one     *)
(* name.                                                                   *)
C18_Witness ==
    \E p, q \in Callers :
        /\ p # q
        /\ calls[p].pc = "done"
        /\ calls[q].pc = "done"
        /\ calls[p].readAt = calls[q].readAt
        /\ Serialized(p)
        /\ ~Serialized(q)
        /\ TextureOf(p).name = TextureOf(q).name
        /\ \E i, j \in 1 .. Len(shaderDesc.declareCode) :
              /\ i # j
              /\ shaderDesc.declareCode[i].name = shaderDesc.declareCode[j].name

=============================================================================
